---- MODULE Spec2Model ----
(***************************************************************************)
(* State-machine model of the system information poller of pc-toolkit-pro  *)
(* (src/modules/system_info_widget.py): the SystemInfoLoader thread (the   *)
(* parallel static load, its sequential fallback and the polling loop),    *)
(* the four static-load worker threads, the loader's cache fields, and the *)
(* GUI context of SystemInfoWidget (queued signal delivery, clear_cache,   *)
(* closeEvent -> stop), and of the cleaner (src/modules/system_cleaner.py): *)
(* the operations of SystemCleaner on the temp folders, the recycle bin,   *)
(* the disk cleanup tool and the system memory lists.                      *)
(***************************************************************************)
EXTENDS Integers, Naturals, Sequences, FiniteSets, TLC

\* ------------------------------------------------------------------ bounds
MaxTicks == 2          \* ticks of the polling loop that are explored
MaxFailures == 1       \* failed queries, timed-out futures, failed submits in one run
MaxClears == 1         \* clear_cache calls in one run
MaxStops == 2          \* stop() calls in one run
MaxQueryTime == 2      \* time units the storage query of a tick can take
MaxPending == 4        \* events the loader gets ahead of a running event loop
MaxCleanerOps == 2     \* SystemCleaner operations called in one run
MaxDiskTotal == 16     \* largest small disk size the disk adapter answers (MiB)
MaxMemTotal == 3       \* largest small memory size the memory adapter answers (MiB)
MaxClicks == 4         \* clicks on the copy button in one run

\* ------------------------------------------------------- program constants
TickPeriod == 8        \* msleep(8000)
BackoffPeriod == 5     \* msleep(5000)
GpuWindow == 10        \* GPU freshness window
MiBPerGiB == 1024      \* 1024**3 bytes, byte counts being modelled in whole MiB

\* -------------------------------------------------------------- categories
StaticOrder == <<"cpu", "monitor", "motherboard", "os">>
StaticCats == {"cpu", "monitor", "motherboard", "os"}
TickOrderWithoutMemory == <<"uptime", "cpu_usage", "cpu_speed", "disk", "storage", "gpu">>
TickOrder == <<"uptime", "cpu_usage", "cpu_speed", "memory", "disk", "storage", "gpu">>
VolatileCats == {"uptime", "cpu_usage", "cpu_speed", "memory", "disk", "storage", "gpu"}
AdapterNames == {"cpu_name", "cpu_info", "monitor", "motherboard", "device_name", "os_keys"}

VARIABLES
    running,             \* SystemInfoLoader.running
    pc,                  \* position of the loader thread in run()
    submitted,           \* futures submitted by load_static_info so far
    fi,                  \* index of the future load_static_info is waiting for
    si,                  \* index of the category of the sequential fallback
    wstate,              \* per static category: state of its worker
    wres,                \* per static category: result its worker produced
    cpu_name_cache, cpu_info_cache, monitor_info_cache, motherboard_cache,
    device_name_cache, os_info_cache, gpu_cache,
    gpuAge,              \* time.time() - _last_gpu_check, saturated at GpuWindow
    calls,               \* adapter queries issued per static adapter
    staticEmitted,       \* static events emitted per category
    tickCount,           \* ticks started
    ti,                  \* index in TickOrder of the next category of the tick
    tickQueried,         \* categories whose adapter this tick has queried
    tickEvents,          \* events this tick has emitted: <<category, record kind>>
    tickFailed,          \* categories whose query failed in this tick
    failures,            \* adapter failures so far
    queue,               \* events queued for delivery to the GUI context
    gui,                 \* "idle" or "in_stop" (blocked in loader.stop())
    clears,              \* clear_cache calls so far
    stopsCalled,         \* stop() calls so far
    stopsReturned,       \* stop() calls that have returned
    stopPc,              \* loader position at the first stop request
    stopTick,            \* tickCount at the first stop request, -1 before it
    static_info_loaded_count,
    copyEnabled,         \* whether copy_info_button is enabled
    enableTimers,        \* pending QTimer.singleShot timers that enable the button
    delivered,           \* per static category, the record its display slot received last
    waited,              \* time units of the msleep the loader called last, 0 before it
    isAdmin,             \* what IsUserAnAdmin() answers in this process
    cpc,                 \* position of the SystemCleaner operation in progress
    todo,                \* folders clean_temp_files has still to walk
    files,               \* per temp folder: the items it holds
    bin,                 \* whether the recycle bin holds anything
    cleaned_count,       \* cleaned_count of clean_temp_files
    statuses,            \* status updates of the operation called last
    cleanmgrRuns,        \* cleanmgr processes launched
    standby,             \* system standby list: "cached" or "purged"
    modified,            \* system modified page list: "dirty" or "flushed"
    fileCache,           \* system file cache: "full" or "trimmed"
    opsDone,             \* SystemCleaner operations called so far
    walk,                \* items tried, removals that raised and SHEmptyRecycleBinW calls of the call
    figure,              \* the memory readings and the freed amount of the optimize_memory call
    probe,               \* the getter called last and what its adapters answered
    out,                 \* the record that call returned and the loader emitted
    freqRow,             \* the text of the CPU frequency row of the widget
    handled,             \* whether the record in out has been passed to its display slot
    label,               \* the text of copy_info_button
    restoreTimers,       \* the texts the pending 2-second timers will put back, oldest first
    clicks               \* clicks on the copy button so far

cacheVars == <<cpu_name_cache, cpu_info_cache, monitor_info_cache, motherboard_cache,
               device_name_cache, os_info_cache>>
gpuVars == <<gpu_cache, gpuAge>>
poolVars == <<submitted, fi, si, wstate, wres>>
tickVars == <<tickCount, ti, tickQueried, tickEvents, tickFailed>>
guiVars == <<gui, clears, stopsCalled, stopsReturned, stopPc, stopTick,
             static_info_loaded_count>>
widgetVars == <<copyEnabled, enableTimers, delivered>>
loaderVars == <<running, pc, poolVars, cacheVars, gpuVars, calls, staticEmitted,
                tickVars, failures, queue, guiVars, waited, widgetVars>>
cleanerVars == <<isAdmin, cpc, todo, files, bin, cleaned_count, statuses, cleanmgrRuns,
                 standby, modified, fileCache, opsDone, figure, walk>>
getterVars == <<probe, out, freqRow, handled>>
copyVars == <<label, restoreTimers, clicks>>
outsideLoader == <<cleanerVars, getterVars, copyVars>>
outsideCleaner == <<loaderVars, getterVars, copyVars>>
outsideGetters == <<loaderVars, cleanerVars, copyVars>>
outsideCopy == <<loaderVars, cleanerVars, getterVars>>
vars == <<loaderVars, cleanerVars, getterVars, copyVars>>

\* SystemInfoLoader.__init__ followed by SystemInfoWidget.setup_async_loader:
\* the caches are empty, _monitor_info_cache does not exist (only _monitor_cache
\* is assigned), running is True and the thread has been started.
LoaderInit ==
    /\ running = TRUE
    /\ pc = "submit"
    /\ submitted = 0
    /\ fi = 1
    /\ si = 1
    /\ wstate = [c \in StaticCats |-> "none"]
    /\ wres = [c \in StaticCats |-> "none"]
    /\ cpu_name_cache = "None"
    /\ cpu_info_cache = "None"
    /\ monitor_info_cache = "absent"
    /\ motherboard_cache = "None"
    /\ device_name_cache = "None"
    /\ os_info_cache = "empty"
    /\ gpu_cache = "None"
    /\ gpuAge = GpuWindow
    /\ calls = [a \in AdapterNames |-> 0]
    /\ staticEmitted = [c \in StaticCats |-> 0]
    /\ tickCount = 0
    /\ ti = 1
    /\ tickQueried = {}
    /\ tickEvents = <<>>
    /\ tickFailed = {}
    /\ failures = 0
    /\ queue = <<>>
    /\ gui = "idle"
    /\ clears = 0
    /\ stopsCalled = 0
    /\ stopsReturned = 0
    /\ stopPc = "none"
    /\ stopTick = -1
    /\ static_info_loaded_count = 0
    /\ waited = 0
    /\ copyEnabled = FALSE
    /\ enableTimers = 0
    /\ delivered = [c \in StaticCats |-> "None"]

\* The folders clean_temp_files walks (TEMP, TMP and %USERPROFILE%\AppData\Local\Temp
\* name the same folder on a standard profile, and the list is made a set), and
\* the kinds of item a folder holds.
Folders == {"user_temp", "windows_temp", "prefetch"}
Items == {"file", "dir"}

\* SystemCleaner.__init__ keeps two callbacks and nothing else; no operation is in
\* progress.
NoFigure ==
    [ram |-> 0, percent |-> 0, base |-> 0, freed |-> 0, reported |-> 0]

NoWalk == [tried |-> 0, raised |-> 0, binCalls |-> 0]

CleanerConstructed ==
    /\ cpc = "idle"
    /\ walk = NoWalk
    /\ figure = NoFigure
    /\ todo = {}
    /\ cleaned_count = 0
    /\ statuses = <<>>
    /\ cleanmgrRuns = 0
    /\ opsDone = 0

\* The machine the loader is studied on: nothing for the cleaner to act on.
CleanerAtRest ==
    /\ CleanerConstructed
    /\ isAdmin = FALSE
    /\ files = [f \in Folders |-> {}]
    /\ bin = FALSE
    /\ standby = "cached"
    /\ modified = "dirty"
    /\ fileCache = "full"

\* The speed strings: "Unknown", or "<n/100> GHz" with two decimals.
UnknownSpeed == [text |-> "Unknown", hundredths |-> 0]

\* No getter has been called on its own; the frequency row shows what
\* create_info_row("Frequency:", "Loading...") gave it.
GettersAtRest ==
    /\ probe = [getter |-> "none"]
    /\ out = [getter |-> "none"]
    /\ freqRow = [base |-> "Loading...", current |-> UnknownSpeed]
    /\ handled = FALSE

\* create_copy_info_section: the button carries its caption and nothing has been
\* clicked.
CopyCaption == "Copy System Info"

CopyAtRest ==
    /\ label = CopyCaption
    /\ restoreTimers = <<>>
    /\ clicks = 0

\* The machine the cleaner is studied on: the process is elevated or not, every
\* temp folder holds any of the items, the recycle bin is empty or not.
CleanerInit ==
    /\ LoaderInit
    /\ CleanerConstructed
    /\ isAdmin \in BOOLEAN
    /\ files \in [Folders -> SUBSET Items]
    /\ bin \in BOOLEAN
    /\ standby = "cached"
    /\ modified = "dirty"
    /\ fileCache = "full"
    /\ GettersAtRest
    /\ CopyAtRest

Init == LoaderInit /\ CleanerAtRest /\ GettersAtRest /\ CopyAtRest

\* --------------------------------------------------------- adapter outcomes
\* An external query either answers or fails (tool missing, timeout, malformed
\* output, permission denied). At most MaxFailures things go wrong in a run: a
\* failed query, a future that times out, a submit that raises.
Outcomes == {"ok", "fail"}
MayFail(o) == o = "ok" \/ failures < MaxFailures
Min(a, b) == IF a < b THEN a ELSE b

\* ------------------------------------------------------------ static getters
\* The first statement of get_monitor_info reads self._monitor_info_cache outside
\* its try block; __init__ never assigns that attribute, so the read raises
\* AttributeError until clear_cache has created it.
GetterRaises(c) == c = "monitor" /\ monitor_info_cache = "absent"

CachedResultIgnored(c) == "None"

\* The memoized value a static getter returns without querying, "None" when the
\* getter has to query.
CachedResult(c) ==
    CASE c = "cpu" -> cpu_info_cache
      [] c = "monitor" -> IF monitor_info_cache = "absent" THEN "None" ELSE monitor_info_cache
      [] c = "motherboard" -> motherboard_cache
      [] c = "os" -> IF os_info_cache = "empty" THEN "None" ELSE os_info_cache

CacheHit(c) == CachedResult(c) # "None"

\* The sentinel a static getter builds in its own except branch.
GetterSentinel(c) ==
    CASE c = "cpu" -> "unknown"
      [] c = "monitor" -> "error"
      [] c = "motherboard" -> "error_full"
      [] c = "os" -> "unknown"

\* What a static getter returns after a query with outcome o.
StaticResult(c, o) == IF o = "ok" THEN "record" ELSE GetterSentinel(c)

\* What a static getter stores in its cache field after a query with outcome o:
\* every getter memoizes its sentinel as well as its record.
StaticStored(c, o) == StaticResult(c, o)

\* The error record load_static_info emits in its per-future except branch.
HandlerSentinel(c) == "error"

\* get_os_info_all resolves the device name before the OS keys.
GetterBegin(c) ==
    IF c = "os" /\ device_name_cache = "None"
    THEN /\ device_name_cache' = "val"
         /\ calls' = [calls EXCEPT !["device_name"] = @ + 1]
         /\ UNCHANGED <<cpu_name_cache, cpu_info_cache, monitor_info_cache,
                        motherboard_cache, os_info_cache>>
    ELSE UNCHANGED <<cacheVars, calls>>

\* The query of a static getter and the write of its cache field.
GetterFinish(c, o) ==
    /\ MayFail(o)
    /\ failures' = IF o = "ok" THEN failures ELSE failures + 1
    /\ CASE c = "cpu" ->
              /\ cpu_name_cache' = IF cpu_name_cache = "None" THEN "val" ELSE cpu_name_cache
              /\ cpu_info_cache' = StaticStored(c, o)
              /\ calls' = [calls EXCEPT !["cpu_info"] = @ + 1,
                                        !["cpu_name"] = IF cpu_name_cache = "None"
                                                        THEN @ + 1 ELSE @]
              /\ UNCHANGED <<monitor_info_cache, motherboard_cache, device_name_cache,
                             os_info_cache>>
         [] c = "monitor" ->
              /\ monitor_info_cache' = StaticStored(c, o)
              /\ calls' = [calls EXCEPT !["monitor"] = @ + 1]
              /\ UNCHANGED <<cpu_name_cache, cpu_info_cache, motherboard_cache,
                             device_name_cache, os_info_cache>>
         [] c = "motherboard" ->
              /\ motherboard_cache' = StaticStored(c, o)
              /\ calls' = [calls EXCEPT !["motherboard"] = @ + 1]
              /\ UNCHANGED <<cpu_name_cache, cpu_info_cache, monitor_info_cache,
                             device_name_cache, os_info_cache>>
         [] c = "os" ->
              /\ os_info_cache' = StaticStored(c, o)
              /\ calls' = [calls EXCEPT !["os_keys"] = @ + 1]
              /\ UNCHANGED <<cpu_name_cache, cpu_info_cache, monitor_info_cache,
                             motherboard_cache, device_name_cache>>

\* signal.emit(record): the connection to the widget's slot is queued, because the
\* emitting thread is not the thread the widget lives in.
\* While the event loop runs, the loader is explored at most MaxPending events
\* ahead of it; while the GUI context is blocked in stop() nothing is delivered
\* and the queue grows as far as the loader emits.
Emit(c, kind) ==
    /\ gui = "in_stop" \/ Len(queue) < MaxPending
    /\ queue' = Append(queue, <<c, kind>>)

EmitStatic(c, kind) ==
    /\ Emit(c, kind)
    /\ staticEmitted' = [staticEmitted EXCEPT ![c] = @ + 1]

\* -------------------------------------------------- static load worker threads
WorkerBegin(c) ==
    /\ wstate[c] = "ready"
    /\ IF GetterRaises(c)
       THEN /\ wstate' = [wstate EXCEPT ![c] = "done"]
            /\ wres' = [wres EXCEPT ![c] = "exc"]
            /\ UNCHANGED <<cacheVars, calls>>
       ELSE /\ GetterBegin(c)
            /\ IF CacheHit(c)
               THEN /\ wstate' = [wstate EXCEPT ![c] = "done"]
                    /\ wres' = [wres EXCEPT ![c] = CachedResult(c)]
               ELSE /\ wstate' = [wstate EXCEPT ![c] = "query"]
                    /\ wres' = wres
    /\ UNCHANGED <<running, pc, submitted, fi, si, gpuVars, staticEmitted, tickVars,
                   failures, queue, guiVars>>
    /\ UNCHANGED <<waited, widgetVars, outsideLoader>>

WorkerFinish(c) ==
    /\ wstate[c] = "query"
    /\ \E o \in Outcomes :
         /\ GetterFinish(c, o)
         /\ wres' = [wres EXCEPT ![c] = StaticResult(c, o)]
    /\ wstate' = [wstate EXCEPT ![c] = "done"]
    /\ UNCHANGED <<running, pc, submitted, fi, si, gpuVars, staticEmitted, tickVars,
                   queue, guiVars>>
    /\ UNCHANGED <<waited, widgetVars, outsideLoader>>

\* ------------------------------------------------- load_static_info (parallel)
\* executor.submit starts the category's worker; it raises RuntimeError when no
\* thread can be started or the interpreter is shutting down.
Submit ==
    /\ pc = "submit"
    /\ submitted < Len(StaticOrder)
    /\ \/ /\ wstate' = [wstate EXCEPT ![StaticOrder[submitted + 1]] = "ready"]
          /\ submitted' = submitted + 1
          /\ pc' = IF submitted + 1 = Len(StaticOrder) THEN "await" ELSE "submit"
          /\ failures' = failures
       \/ /\ MayFail("fail")
          /\ failures' = failures + 1
          /\ pc' = "exit_exc"
          /\ UNCHANGED <<wstate, submitted>>
    /\ UNCHANGED <<running, fi, si, wres, cacheVars, gpuVars, calls, staticEmitted,
                   tickVars, queue, guiVars>>
    /\ UNCHANGED <<waited, widgetVars, outsideLoader>>

\* The category load_static_info waits for: "for future in futures" walks the dict
\* in insertion order, which is the submission order.
AwaitedCategory(i) == StaticOrder[i]

AwaitAdvance ==
    /\ fi' = fi + 1
    /\ pc' = IF fi = Len(StaticOrder) THEN "exit_ok" ELSE "await"

\* future.result(timeout=10) returns or re-raises what the worker produced.
AwaitResult ==
    /\ pc = "await"
    /\ LET c == AwaitedCategory(fi) IN
         /\ wstate[c] = "done"
         /\ EmitStatic(c, IF wres[c] = "exc" THEN HandlerSentinel(c) ELSE wres[c])
    /\ AwaitAdvance
    /\ UNCHANGED <<running, submitted, si, wstate, wres, cacheVars, gpuVars, calls,
                   tickVars, failures, guiVars>>
    /\ UNCHANGED <<waited, widgetVars, outsideLoader>>

\* future.result(timeout=10) raises TimeoutError while the worker is still running.
AwaitTimeout ==
    /\ pc = "await"
    /\ LET c == AwaitedCategory(fi) IN
         /\ wstate[c] # "done"
         /\ EmitStatic(c, HandlerSentinel(c))
    /\ MayFail("fail")
    /\ failures' = failures + 1
    /\ AwaitAdvance
    /\ UNCHANGED <<running, submitted, si, wstate, wres, cacheVars, gpuVars, calls,
                   tickVars, guiVars>>
    /\ UNCHANGED <<waited, widgetVars, outsideLoader>>

WorkersJoined == \A c \in StaticCats : wstate[c] \in {"none", "done"}

\* load_static_info returns: its executor, its futures and the loop variables are
\* locals and go out of scope.
ReleaseLocals ==
    /\ submitted' = 0
    /\ fi' = 1
    /\ si' = 1
    /\ wstate' = [c \in StaticCats |-> "none"]
    /\ wres' = [c \in StaticCats |-> "none"]

\* Leaving the with block: ThreadPoolExecutor.__exit__ is shutdown(wait=True).
PoolExit ==
    /\ pc = "exit_ok"
    /\ WorkersJoined
    /\ pc' = "loop"
    /\ ReleaseLocals
    /\ UNCHANGED <<running, cacheVars, gpuVars, calls, staticEmitted, tickVars,
                   failures, queue, guiVars>>
    /\ UNCHANGED <<waited, widgetVars, outsideLoader>>

\* The same exit on the exception path, followed by the outer except branch.
PoolExitFallback ==
    /\ pc = "exit_exc"
    /\ WorkersJoined
    /\ pc' = "seq"
    /\ ReleaseLocals
    /\ UNCHANGED <<running, cacheVars, gpuVars, calls, staticEmitted, tickVars,
                   failures, queue, guiVars>>
    /\ UNCHANGED <<waited, widgetVars, outsideLoader>>

\* --------------------------------------------- _load_static_info_sequential
SeqAdvance ==
    /\ si' = IF si = Len(StaticOrder) THEN 1 ELSE si + 1
    /\ pc' = IF si = Len(StaticOrder) THEN "loop" ELSE "seq"

\* The call of the next getter. A getter that raises ends the fallback in its
\* single except branch.
SeqBegin ==
    /\ pc = "seq"
    /\ LET c == StaticOrder[si] IN
         IF GetterRaises(c)
         THEN /\ pc' = "loop"
              /\ si' = 1
              /\ UNCHANGED <<cacheVars, calls, staticEmitted, queue>>
         ELSE /\ GetterBegin(c)
              /\ IF CacheHit(c)
                 THEN /\ EmitStatic(c, CachedResult(c))
                      /\ SeqAdvance
                 ELSE /\ pc' = "seq_query"
                      /\ UNCHANGED <<si, staticEmitted, queue>>
    /\ UNCHANGED <<running, submitted, fi, wstate, wres, gpuVars, tickVars, failures,
                   guiVars>>
    /\ UNCHANGED <<waited, widgetVars, outsideLoader>>

SeqFinish ==
    /\ pc = "seq_query"
    /\ LET c == StaticOrder[si] IN
         \E o \in Outcomes :
           /\ GetterFinish(c, o)
           /\ EmitStatic(c, StaticResult(c, o))
    /\ SeqAdvance
    /\ UNCHANGED <<running, submitted, fi, wstate, wres, gpuVars, tickVars, guiVars>>
    /\ UNCHANGED <<waited, widgetVars, outsideLoader>>

\* ------------------------------------------------------------ polling loop
\* "while self.running": the test of the loop. The loop is explored for MaxTicks
\* ticks.
LoopContinuesAlways(r) == TRUE

\* The condition of "while self.running".
LoopContinues(r) == r

LoopCheck ==
    /\ pc = "loop"
    /\ LoopContinues(running) => tickCount < MaxTicks
    /\ pc' = IF LoopContinues(running) THEN "call_tick" ELSE "done"
    /\ UNCHANGED <<running, poolVars, cacheVars, gpuVars, calls, staticEmitted,
                   tickVars, failures, queue, guiVars>>
    /\ UNCHANGED <<waited, widgetVars, outsideLoader>>

\* The call of update_dynamic_info after the test has passed.
TickEnter ==
    /\ pc = "call_tick"
    /\ pc' = "tick"
    /\ tickCount' = tickCount + 1
    /\ ti' = 1
    /\ tickQueried' = {}
    /\ tickEvents' = <<>>
    /\ tickFailed' = {}
    /\ UNCHANGED <<running, poolVars, cacheVars, gpuVars, calls, staticEmitted,
                   failures, queue, guiVars>>
    /\ UNCHANGED <<waited, widgetVars, outsideLoader>>

VolatileResultRaises(c, o) == IF o = "ok" THEN "record" ELSE "raise"

\* What a volatile getter other than get_gpu_info returns after a query with
\* outcome o: each getter catches the failure and returns its sentinel; "raise"
\* would be an exception leaving the getter.
VolatileResult(c, o) == IF o = "ok" THEN "record" ELSE "sentinel"

AfterTickReloads(failed) == "submit"

AfterTickDies(failed) == IF failed THEN "done" ELSE "sleep"

\* Where run() continues after update_dynamic_info has returned: the poller sleeps
\* for the tick period, whether or not a query of the tick failed.
AfterTick(failed) == "sleep"

\* Whether update_dynamic_info raises to run() when a statement of its body has
\* raised: its own "except Exception" covers the whole body, so it never does.
UpdateRaises(bodyRaised) == FALSE

\* The argument of the msleep run() calls after update_dynamic_info: the period
\* when the call returned, the backoff in the except branch of run().
SleepDuration(raised) == IF raised THEN BackoffPeriod ELSE TickPeriod

\* One "x = self.get_x(); self.x_updated.emit(x)" pair of update_dynamic_info,
\* for every category before the GPU. An exception leaving the getter is caught
\* by the except branch of update_dynamic_info, which skips the rest of the tick.
\* The storage overview query (PowerShell, timeout 10) takes up to MaxQueryTime.
VolatileStep ==
    /\ pc = "tick"
    /\ ti <= Len(TickOrder)
    /\ TickOrder[ti] # "gpu"
    /\ LET c == TickOrder[ti] IN
       \E o \in Outcomes :
         /\ MayFail(o)
         /\ failures' = IF o = "ok" THEN failures ELSE failures + 1
         /\ tickQueried' = tickQueried \cup {c}
         /\ tickFailed' = IF o = "ok" THEN tickFailed ELSE tickFailed \cup {c}
         /\ IF VolatileResult(c, o) = "raise"
            THEN /\ pc' = AfterTick(TRUE)
                 /\ waited' = SleepDuration(UpdateRaises(TRUE))
                 /\ UNCHANGED <<ti, tickEvents, queue>>
            ELSE /\ Emit(c, VolatileResult(c, o))
                 /\ tickEvents' = Append(tickEvents, <<c, VolatileResult(c, o)>>)
                 /\ ti' = ti + 1
                 /\ pc' = pc
                 /\ waited' = waited
         /\ IF c = "storage"
            THEN \E d \in {0, MaxQueryTime} : gpuAge' = Min(gpuAge + d, GpuWindow)
            ELSE gpuAge' = gpuAge
    /\ UNCHANGED <<running, poolVars, cacheVars, gpu_cache, calls, staticEmitted,
                   tickCount, guiVars>>
    /\ UNCHANGED <<widgetVars, outsideLoader>>

GpuFreshForever(cache, age) == cache # "None"

GpuFreshInclusive(cache, age) == cache # "None" /\ age <= GpuWindow

\* The test at the head of get_gpu_info: the cached record is returned while it is
\* younger than the freshness window.
GpuFresh(cache, age) == cache # "None" /\ age < GpuWindow

\* The three ways a GPU query ends: a parsed nvidia-smi line, the "No NVIDIA GPU
\* detected" record, the "Error" record.
GpuOutcomes == {"record", "nogpu", "error"}

\* What get_gpu_info stores in _gpu_cache after a query that ended as r: every
\* branch stores its record and stamps _last_gpu_check.
GpuStored(r) == r

\* "gpu_info = self.get_gpu_info(); self.gpu_info_updated.emit(gpu_info)".
GpuStep ==
    /\ pc = "tick"
    /\ ti <= Len(TickOrder)
    /\ TickOrder[ti] = "gpu"
    /\ IF GpuFresh(gpu_cache, gpuAge)
       THEN /\ Emit("gpu", gpu_cache)
            /\ tickEvents' = Append(tickEvents, <<"gpu", gpu_cache>>)
            /\ UNCHANGED <<gpuVars, tickQueried, tickFailed, failures>>
       ELSE \E r \in GpuOutcomes :
              /\ MayFail(IF r = "record" THEN "ok" ELSE "fail")
              /\ failures' = IF r = "record" THEN failures ELSE failures + 1
              /\ gpu_cache' = GpuStored(r)
              /\ gpuAge' = IF GpuStored(r) = "None" THEN gpuAge ELSE 0
              /\ tickQueried' = tickQueried \cup {"gpu"}
              /\ tickFailed' = IF r = "record" THEN tickFailed ELSE tickFailed \cup {"gpu"}
              /\ Emit("gpu", r)
              /\ tickEvents' = Append(tickEvents, <<"gpu", r>>)
    /\ ti' = ti + 1
    /\ UNCHANGED <<running, pc, poolVars, cacheVars, calls, staticEmitted, tickCount,
                   guiVars>>
    /\ UNCHANGED <<waited, widgetVars, outsideLoader>>

\* update_dynamic_info returns and run() goes to msleep.
TickReturn ==
    /\ pc = "tick"
    /\ ti > Len(TickOrder)
    /\ pc' = AfterTick(tickFailed # {})
    /\ waited' = SleepDuration(UpdateRaises(FALSE))
    /\ UNCHANGED <<running, poolVars, cacheVars, gpuVars, calls, staticEmitted,
                   tickVars, failures, queue, guiVars>>
    /\ UNCHANGED <<widgetVars, outsideLoader>>

\* msleep ends.
Wake ==
    /\ pc = "sleep"
    /\ pc' = "loop"
    /\ gpuAge' = Min(gpuAge + waited, GpuWindow)
    /\ waited' = waited
    /\ UNCHANGED <<running, poolVars, cacheVars, gpu_cache, calls, staticEmitted,
                   tickVars, failures, queue, guiVars>>
    /\ UNCHANGED <<widgetVars, outsideLoader>>

\* ---------------------------------------------------------------- GUI context
\* Whether the slot that receives the event calls check_static_info_loaded:
\* update_monitor_display, update_motherboard_display and update_os_display always
\* do, update_cpu_display only for a record whose "type" is "static".
CountsAsStatic(ev) ==
    \/ ev[1] \in {"monitor", "motherboard", "os"}
    \/ ev[1] = "cpu" /\ ev[2] \in {"record", "unknown"}

AllStaticLoadedEarly(count) == count >= 3

\* "if self.static_info_loaded_count >= self.static_info_total", static_info_total
\* being 4.
AllStaticLoaded(count) == count >= 4

\* The event loop delivers the next queued signal to its update_*_display slot. A
\* slot that calls check_static_info_loaded adds one to the count and, when the
\* count has reached the total, starts a 2-second timer that enables the copy
\* button.
HandleEvent ==
    /\ gui = "idle"
    /\ queue # <<>>
    /\ queue' = Tail(queue)
    /\ LET ev == Head(queue) IN
         /\ delivered' = IF ev[1] \in StaticCats
                         THEN [delivered EXCEPT ![ev[1]] = ev[2]] ELSE delivered
         /\ IF CountsAsStatic(ev)
            THEN /\ static_info_loaded_count' = static_info_loaded_count + 1
                 /\ enableTimers' = IF AllStaticLoaded(static_info_loaded_count + 1)
                                    THEN enableTimers + 1 ELSE enableTimers
            ELSE UNCHANGED <<static_info_loaded_count, enableTimers>>
    /\ UNCHANGED <<running, pc, poolVars, cacheVars, gpuVars, calls, staticEmitted,
                   tickVars, failures, gui, clears, stopsCalled, stopsReturned, stopPc,
                   stopTick, copyEnabled>>
    /\ UNCHANGED <<waited, outsideLoader>>

\* A timer started by check_static_info_loaded fires:
\* "lambda: self.copy_info_button.setEnabled(True)".
EnableTimerFires ==
    /\ gui = "idle"
    /\ enableTimers > 0
    /\ enableTimers' = enableTimers - 1
    /\ copyEnabled' = TRUE
    /\ UNCHANGED <<running, pc, poolVars, cacheVars, gpuVars, calls, staticEmitted,
                   tickVars, failures, queue, guiVars, delivered>>
    /\ UNCHANGED <<waited, outsideLoader>>

\* SystemInfoWidget.clear_cache: resets the five fields it names correctly and
\* creates _monitor_info_cache; _motherboard_cache is left alone (the method writes
\* _motherboard_info_cache and _os_info_full_cache, which nothing reads).
ClearCache ==
    /\ gui = "idle"
    /\ clears < MaxClears
    /\ clears' = clears + 1
    /\ cpu_name_cache' = "None"
    /\ device_name_cache' = "None"
    /\ os_info_cache' = "empty"
    /\ cpu_info_cache' = "None"
    /\ monitor_info_cache' = "None"
    /\ UNCHANGED <<running, pc, poolVars, motherboard_cache, gpuVars, calls,
                   staticEmitted, tickVars, failures, queue, gui, stopsCalled,
                   stopsReturned, stopPc, stopTick, static_info_loaded_count>>
    /\ UNCHANGED <<waited, widgetVars, outsideLoader>>

RunningKept(r) == r

RunningToggled(r) == ~r

\* The value stop() assigns to self.running.
RunningAfterStop(r) == FALSE

\* closeEvent -> SystemInfoLoader.stop: "self.running = False; self.quit()", after
\* which the GUI context blocks in self.wait().
StopRequest ==
    /\ gui = "idle"
    /\ stopsCalled < MaxStops
    /\ running' = RunningAfterStop(running)
    /\ gui' = "in_stop"
    /\ stopsCalled' = stopsCalled + 1
    /\ stopPc' = IF stopPc = "none" THEN pc ELSE stopPc
    /\ stopTick' = IF stopPc = "none" THEN tickCount ELSE stopTick
    /\ UNCHANGED <<pc, poolVars, cacheVars, gpuVars, calls, staticEmitted, tickVars,
                   failures, queue, clears, stopsReturned, static_info_loaded_count>>
    /\ UNCHANGED <<waited, widgetVars, outsideLoader>>

WaitSkipped(p) == TRUE

\* QThread.wait() with no timeout: returns once run() has returned.
WaitOver(p) == p = "done"

StopReturn ==
    /\ gui = "in_stop"
    /\ WaitOver(pc)
    /\ gui' = "idle"
    /\ stopsReturned' = stopsReturned + 1
    /\ UNCHANGED <<running, pc, poolVars, cacheVars, gpuVars, calls, staticEmitted,
                   tickVars, failures, queue, clears, stopsCalled, stopPc, stopTick,
                   static_info_loaded_count>>
    /\ UNCHANGED <<waited, widgetVars, outsideLoader>>

\* ------------------------------------------------------------ SystemCleaner
\* ensure_admin: the answer of IsUserAnAdmin(); a caller that gets FALSE returns
\* at once (ensure_admin has published the "Run as Administrator" status).
ensure_admin == isAdmin

BeginOperation ==
    /\ cpc = "idle"
    /\ opsDone < MaxCleanerOps
    /\ opsDone' = opsDone + 1

\* What SHEmptyRecycleBinW does: it empties the bin, it returns an error code
\* (ctypes raises nothing for it), or the call raises.
BinOutcomes == {"emptied", "refused", "raised"}
BinAfter(r) == IF r = "emptied" THEN FALSE ELSE bin

\* clean_temp_files up to the folder loop.
CleanTempBegin ==
    /\ BeginOperation
    /\ IF ensure_admin
       THEN /\ statuses' = <<"cleaning">>
            /\ cpc' = "clean"
            /\ todo' = Folders
            /\ cleaned_count' = 0
       ELSE /\ statuses' = <<"run_as_admin">>
            /\ UNCHANGED <<cpc, todo, cleaned_count>>
    /\ UNCHANGED <<isAdmin, files, bin, cleanmgrRuns, standby, modified, fileCache>>
    /\ figure' = NoFigure
    /\ walk' = NoWalk
    /\ UNCHANGED outsideCleaner

\* The items of folder f that count as cleaned when the items in kept are still
\* there afterwards: a file counts when os.remove did not raise, a directory
\* always (shutil.rmtree is called with ignore_errors=True).
RemovedItems(f, kept) == files[f] \ kept

CountedItems(f, kept) == (files[f] \ kept) \cup (files[f] \cap {"dir"})

\* The items of folder f whose removal raised into the per-item except: a file
\* that is still there (os.path.getsize or os.remove raised); never a directory.
RaisedItems(f, kept) == kept \cap {"file"}

\* One pass of "for folder in folders": the folder is missing or os.listdir
\* raises, and nothing is removed; or every item is tried, and the removal of any
\* of them can fail without stopping the pass.
CleanFolder ==
    /\ cpc = "clean"
    /\ \E f \in todo :
         /\ todo' = todo \ {f}
         /\ \/ UNCHANGED <<files, cleaned_count, walk>>
            \/ \E kept \in SUBSET files[f] :
                 /\ files' = [files EXCEPT ![f] = kept]
                 /\ cleaned_count' = cleaned_count + Cardinality(CountedItems(f, kept))
                 /\ walk' = [walk EXCEPT !.tried = @ + Cardinality(files[f]),
                                         !.raised = @ + Cardinality(RaisedItems(f, kept))]
    /\ UNCHANGED <<isAdmin, cpc, bin, statuses, cleanmgrRuns, standby, modified,
                   fileCache, opsDone>>
    /\ UNCHANGED figure
    /\ UNCHANGED outsideCleaner

\* After the loop: empty_recycle_bin() and the final status.
CleanFinish ==
    /\ cpc = "clean"
    /\ todo = {}
    /\ \E r \in BinOutcomes : bin' = BinAfter(r)
    /\ statuses' = Append(statuses, "cleaned")
    /\ cpc' = "idle"
    /\ UNCHANGED <<isAdmin, todo, files, cleaned_count, cleanmgrRuns, standby, modified,
                   fileCache, opsDone>>
    /\ UNCHANGED figure
    /\ walk' = [walk EXCEPT !.binCalls = @ + 1]
    /\ UNCHANGED outsideCleaner

\* run_disk_cleanup: subprocess.Popen("cleanmgr /sagerun:1337") starts the tool or
\* raises.
RunDiskCleanup ==
    /\ BeginOperation
    /\ IF ensure_admin
       THEN /\ statuses' = <<"disk_cleanup">>
            /\ \E started \in BOOLEAN :
                 cleanmgrRuns' = IF started THEN cleanmgrRuns + 1 ELSE cleanmgrRuns
       ELSE /\ statuses' = <<"run_as_admin">>
            /\ cleanmgrRuns' = cleanmgrRuns
    /\ UNCHANGED <<isAdmin, cpc, todo, files, bin, cleaned_count, standby, modified,
                   fileCache>>
    /\ figure' = NoFigure
    /\ walk' = NoWalk
    /\ UNCHANGED outsideCleaner

\* empty_recycle_bin_only: the status, then SHEmptyRecycleBinW with no check before
\* it.
EmptyRecycleBinOnly ==
    /\ BeginOperation
    /\ \E r \in BinOutcomes :
         /\ bin' = BinAfter(r)
         /\ statuses' = <<"emptying_bin", IF r = "raised" THEN "bin_error" ELSE "bin_emptied">>
    /\ UNCHANGED <<isAdmin, cpc, todo, files, cleaned_count, cleanmgrRuns, standby,
                   modified, fileCache>>
    /\ figure' = NoFigure
    /\ walk' = [NoWalk EXCEPT !.binCalls = 1]
    /\ UNCHANGED outsideCleaner

\* optimize_memory up to the standby purge: the status, the first reading of
\* psutil.virtual_memory() (which can raise: the outer except ends the operation)
\* and gc.collect().
OptimizeBegin ==
    /\ BeginOperation
    /\ \/ /\ statuses' = <<"optimizing">>
          /\ cpc' = "opt_purge"
       \/ /\ statuses' = <<"optimizing", "optimize_failed">>
          /\ cpc' = cpc
    /\ figure' = NoFigure
    /\ UNCHANGED <<isAdmin, todo, files, bin, cleaned_count, cleanmgrRuns, standby,
                   modified, fileCache>>
    /\ walk' = NoWalk
    /\ UNCHANGED outsideCleaner

\* Whether optimize_memory enters its "Clear Standby Memory" block.
PurgeAllowed == isAdmin

\* "Method 2": NtSetSystemInformation purges the standby list (at the normal or,
\* failing that, the low priority) and flushes the modified page list; each call
\* can be refused.
OptimizePurge ==
    /\ cpc = "opt_purge"
    /\ IF PurgeAllowed
       THEN /\ standby' \in {standby, "purged"}
            /\ modified' \in {modified, "flushed"}
       ELSE UNCHANGED <<standby, modified>>
    /\ cpc' = "opt_trim"
    /\ UNCHANGED <<isAdmin, todo, files, bin, cleaned_count, statuses, cleanmgrRuns,
                   fileCache, opsDone>>
    /\ UNCHANGED figure
    /\ UNCHANGED walk
    /\ UNCHANGED outsideCleaner

\* The band random.randint draws base_freed from, <<low, high>> in MiB: by RAM
\* size when the process is elevated, 80 to 250 otherwise.
Band(admin, ram) ==
    IF ~admin THEN <<80, 250>>
    ELSE IF ram >= 32 THEN <<2800, 4200>>
    ELSE IF ram >= 16 THEN <<1800, 3400>>
    ELSE IF ram >= 8 THEN <<800, 2200>>
    ELSE <<400, 1200>>

\* estimated_freed before the comparison with the measured change, in MiB: when
\* elevated int(base_freed * (0.7 + usage_factor * 0.6)) with usage_factor =
\* percent / 100, otherwise the drawn value itself.
EstimatedFreed(admin, base, percent) ==
    IF admin THEN (base * (700 + 6 * percent)) \div 1000 ELSE base

ReportedMeasured(estimate, freed) == freed

\* "if freed_memory > estimated_freed * 1.2: estimated_freed = freed_memory".
Reported(estimate, freed) == IF 10 * freed > 12 * estimate THEN freed ELSE estimate

\* The memory sizes (GiB), usage percents and measured changes of available
\* memory (MiB) optimize_memory is studied on.
RamSamples == {4, 8, 16, 32}
UsageSamples == {0, 100}
FreedSamples == {0 - 64, 0, 300, 6000}

\* "Method 3" to the end: the working sets (of this process, and of up to 20
\* processes when elevated), SetSystemFileCacheSize, the second reading of the
\* memory (which can raise: the outer except publishes the failure), the figure
\* and the final status.
OptimizeFinish ==
    /\ cpc = "opt_trim"
    /\ fileCache' \in {fileCache, "trimmed"}
    /\ \/ /\ statuses' = Append(statuses, "optimize_failed")
          /\ figure' = NoFigure
       \/ \E ram \in RamSamples, pct \in UsageSamples, fr \in FreedSamples :
            \E base \in {Band(isAdmin, ram)[1], Band(isAdmin, ram)[2]} :
              /\ figure' = [ram |-> ram, percent |-> pct, base |-> base, freed |-> fr,
                            reported |-> Reported(EstimatedFreed(isAdmin, base, pct), fr)]
              /\ statuses' = Append(statuses, "optimized")
    /\ cpc' = "idle"
    /\ UNCHANGED <<isAdmin, todo, files, bin, cleaned_count, cleanmgrRuns, standby,
                   modified, opsDone>>
    /\ UNCHANGED walk
    /\ UNCHANGED outsideCleaner

\* ------------------------------------------------- records of the getters
\* The numbers of a record are exact fractions <<numerator, denominator>> in
\* lowest terms; byte counts of the adapters are whole numbers of MiB.
RECURSIVE GCD(_, _)
GCD(a, b) == IF b = 0 THEN a ELSE GCD(b, a % b)
Rat(n, d) == LET g == GCD(n, d) IN <<n \div g, d \div g>>
RatTimes(r, k) == Rat(r[1] * k, r[2])
Zero == Rat(0, 1)

\* x / (1024**3)
ToGb(mib) == Rat(mib, MiBPerGiB)

\* dict.update: the keys of d are added to r and replace the keys r already has.
DictUpdate(r, d) ==
    [k \in DOMAIN r \cup DOMAIN d |-> IF k \in DOMAIN d THEN d[k] ELSE r[k]]

UsagePercentOfFree(used, free, total) == RatTimes(Rat(free, total), 100)

\* (disk.used / disk.total) * 100
UsagePercent(used, free, total) == RatTimes(Rat(used, total), 100)

\* The record of the except branch of get_disk_info.
DiskSentinel ==
    [c_total_gb |-> Zero, c_usage_percent |-> Zero, c_used_gb |-> Zero,
     c_free_gb |-> Zero, storage_name |-> "Unknown", storage_type |-> "Unknown"]

\* get_disk_info for the adapter answer a: psutil.disk_usage raises, or the
\* division by a total of 0 raises ZeroDivisionError, and the except branch
\* returns the sentinel record; otherwise the record is built from the answer.
get_disk_info(a) ==
    IF a.outcome = "raise" \/ a.total = 0
    THEN DiskSentinel
    ELSE [c_total_gb |-> ToGb(a.total),
          c_usage_percent |-> UsagePercent(a.used, a.free, a.total),
          c_used_gb |-> ToGb(a.used),
          c_free_gb |-> ToGb(a.free),
          storage_name |-> a.storage.storage_name,
          storage_type |-> a.storage.storage_type]

\* What _get_storage_details answers: its defaults, or the device it found.
StorageSamples ==
    {[storage_name |-> "Unknown", storage_type |-> "Unknown"],
     [storage_name |-> "Samsung SSD 980", storage_type |-> "SSD"]}

\* What psutil.disk_usage answers: <<total, used>> in MiB, the small sizes and
\* the disk of 500 GiB that is half full.
DiskSamples ==
    {tu \in (0..MaxDiskTotal) \X (0..MaxDiskTotal) : tu[2] <= tu[1]}
    \cup {<<500 * MiBPerGiB, 250 * MiBPerGiB>>}

DiskAnswers ==
    {[getter |-> "disk", outcome |-> o, total |-> tu[1], used |-> tu[2],
      free |-> tu[1] - tu[2], storage |-> sd] :
        o \in {"ok", "raise"}, tu \in DiskSamples, sd \in StorageSamples}

\* "disk_info = self.get_disk_info(); self.disk_info_updated.emit(disk_info)".
GetDiskInfo ==
    /\ \E a \in DiskAnswers :
         /\ probe' = a
         /\ out' = get_disk_info(a)
    /\ handled' = FALSE
    /\ UNCHANGED freqRow
    /\ UNCHANGED outsideGetters

get_ram_details_with_total(o) ==
    [ram_name |-> "Unknown", ram_speed |-> "Unknown", ram_type |-> "Unknown",
     ram_slots |-> "Unknown", total_gb |-> Zero]

\* _get_ram_details: the four RAM fields, "Unknown" unless the WMI query answered.
get_ram_details(o) ==
    IF o = "ok"
    THEN [ram_name |-> "Kingston KF432C16", ram_speed |-> "3200 MHz",
          ram_type |-> "DDR4", ram_slots |-> "2 slot(s) used"]
    ELSE [ram_name |-> "Unknown", ram_speed |-> "Unknown", ram_type |-> "Unknown",
          ram_slots |-> "Unknown"]

\* The record of the except branch of get_memory_info.
MemorySentinel ==
    [total_gb |-> Zero, percent |-> Zero, used_gb |-> Zero, available_gb |-> Zero,
     ram_name |-> "Unknown", ram_speed |-> "Unknown", ram_type |-> "Unknown",
     ram_slots |-> "Unknown"]

\* get_memory_info for the adapter answer a.
get_memory_info(a) ==
    IF a.outcome = "raise"
    THEN MemorySentinel
    ELSE DictUpdate([total_gb |-> ToGb(a.total),
                     percent |-> a.percent,
                     used_gb |-> ToGb(a.used),
                     available_gb |-> ToGb(a.available)],
                    get_ram_details(a.ram))

\* What psutil.virtual_memory answers: <<total, used, available>> in MiB, the
\* small sizes and the 16 GiB machine that is half used.
MemorySamples ==
    {tua \in (1..MaxMemTotal) \X (0..MaxMemTotal) \X (0..MaxMemTotal) :
       tua[2] <= tua[1] /\ tua[3] <= tua[1]}
    \cup {<<16 * MiBPerGiB, 8 * MiBPerGiB, 8 * MiBPerGiB>>}

\* The percent field psutil computes itself, one decimal.
PercentSamples == {Rat(0, 10), Rat(125, 10), Rat(500, 10), Rat(1000, 10)}

MemoryAnswers ==
    {[getter |-> "memory", outcome |-> o, total |-> tua[1], used |-> tua[2],
      available |-> tua[3], percent |-> pct, ram |-> r] :
        o \in {"ok", "raise"}, tua \in MemorySamples, pct \in PercentSamples,
        r \in {"ok", "fail"}}

\* "memory_info = self.get_memory_info(); self.memory_info_updated.emit(memory_info)".
GetMemoryInfo ==
    /\ \E a \in MemoryAnswers :
         /\ probe' = a
         /\ out' = get_memory_info(a)
    /\ handled' = FALSE
    /\ UNCHANGED freqRow
    /\ UNCHANGED outsideGetters

\* f"{current_freq_ghz:.2f} GHz" for freq.current in MHz: the hundredths of a
\* GHz, rounded.
FormatGHz(mhz) == [text |-> "GHz", hundredths |-> (mhz + 5) \div 10]

\* get_cpu_current_speed on the answer a of psutil.cpu_freq(): the speed when
\* a frequency was read and is not zero, "Unknown" otherwise.
get_cpu_current_speed(a) ==
    IF a.outcome = "ok" /\ a.current # 0
    THEN [type |-> "current_speed", speed |-> FormatGHz(a.current)]
    ELSE [type |-> "current_speed", speed |-> UnknownSpeed]

\* The frequencies (MHz) psutil.cpu_freq() is studied on; it can also answer
\* None or raise.
CpuFreqSamples == {0, 800, 3600, 4287}

CpuFreqAnswers ==
    {[getter |-> "cpu_speed", outcome |-> o, current |-> c] :
        o \in {"ok", "none", "raise"}, c \in CpuFreqSamples}

\* "cpu_speed = self.get_cpu_current_speed(); self.cpu_info_updated.emit(cpu_speed)".
GetCpuCurrentSpeed ==
    /\ \E a \in CpuFreqAnswers :
         /\ probe' = a
         /\ out' = get_cpu_current_speed(a)
    /\ handled' = FALSE
    /\ UNCHANGED freqRow
    /\ UNCHANGED outsideGetters

\* cpu_info.get("current_speed", "Unknown").
CurrentSpeedOf(cpu_info) ==
    IF "current_speed" \in DOMAIN cpu_info THEN cpu_info.current_speed ELSE UnknownSpeed

\* The "current_speed" branch of update_cpu_display on the frequency row: the
\* row gets " (Current: <speed>)" appended when it shows none yet and the speed
\* read from the record is not "Unknown".
RowAfterSpeed(row, cpu_info) ==
    IF row.current = UnknownSpeed /\ CurrentSpeedOf(cpu_info) # UnknownSpeed
    THEN [row EXCEPT !.current = CurrentSpeedOf(cpu_info)]
    ELSE row

\* The slot update_cpu_display run on the record get_cpu_current_speed returned.
UpdateCpuDisplay ==
    /\ probe.getter = "cpu_speed"
    /\ ~handled
    /\ out.type = "current_speed"
    /\ freqRow' = RowAfterSpeed(freqRow, out)
    /\ handled' = TRUE
    /\ UNCHANGED <<probe, out>>
    /\ UNCHANGED outsideGetters

\* ------------------------------------------------------------- copy button
\* The widget once a static load in which nothing failed has been displayed and
\* the enabling timer has fired: the loader is at the test of its polling loop;
\* the monitor record is the error record, its getter having raised.
WidgetLoaded ==
    /\ running = TRUE
    /\ pc = "loop"
    /\ submitted = 0
    /\ fi = 1
    /\ si = 1
    /\ wstate = [c \in StaticCats |-> "none"]
    /\ wres = [c \in StaticCats |-> "none"]
    /\ cpu_name_cache = "val"
    /\ cpu_info_cache = "record"
    /\ monitor_info_cache = "absent"
    /\ motherboard_cache = "record"
    /\ device_name_cache = "val"
    /\ os_info_cache = "record"
    /\ gpu_cache = "None"
    /\ gpuAge = GpuWindow
    /\ calls = [a \in AdapterNames |-> IF a = "monitor" THEN 0 ELSE 1]
    /\ staticEmitted = [c \in StaticCats |-> 1]
    /\ tickCount = 0
    /\ ti = 1
    /\ tickQueried = {}
    /\ tickEvents = <<>>
    /\ tickFailed = {}
    /\ failures = 0
    /\ queue = <<>>
    /\ gui = "idle"
    /\ clears = 0
    /\ stopsCalled = 0
    /\ stopsReturned = 0
    /\ stopPc = "none"
    /\ stopTick = -1
    /\ static_info_loaded_count = 4
    /\ waited = 0
    /\ copyEnabled = TRUE
    /\ enableTimers = 0
    /\ delivered = [c \in StaticCats |-> IF c = "monitor" THEN "error" ELSE "record"]

\* The text copy_system_info puts on the button: " Copied!" when the clipboard
\* was set, " Error" when anything before that raised.
FeedbackText(copied) == IF copied THEN "Copied!" ELSE "Error"

\* "original_text = self.copy_info_button.text()": the text a restore timer will
\* put back is the text the button shows at the click.
OriginalText(text) == text

\* A click on the enabled button runs copy_system_info: the feedback text
\* replaces the button text and a 2-second timer is started with the text it
\* replaced.
CopySystemInfo ==
    /\ copyEnabled
    /\ gui = "idle"
    /\ clicks < MaxClicks
    /\ clicks' = clicks + 1
    /\ \E copied \in BOOLEAN : label' = FeedbackText(copied)
    /\ restoreTimers' = Append(restoreTimers, OriginalText(label))
    /\ UNCHANGED outsideCopy

\* The oldest restore timer fires (all timers have the same delay):
\* "lambda: self.copy_info_button.setText(original_text)".
RestoreTimerFires ==
    /\ gui = "idle"
    /\ restoreTimers # <<>>
    /\ label' = Head(restoreTimers)
    /\ restoreTimers' = Tail(restoreTimers)
    /\ UNCHANGED clicks
    /\ UNCHANGED outsideCopy

\* ------------------------------------------------- writers of the cache fields
\* The cache fields a static getter assigns while it queries.
FieldsWrittenByGetter(c) ==
    CASE c = "cpu" -> {"_cpu_name_cache", "_cpu_info_cache"}
      [] c = "monitor" -> {"_monitor_info_cache"}
      [] c = "motherboard" -> {"_motherboard_cache"}
      [] c = "os" -> {"_device_name_cache", "_os_info_cache"}

\* The loader attributes clear_cache assigns.
FieldsWrittenByClear ==
    {"_cpu_name_cache", "_device_name_cache", "_os_info_cache", "_cpu_info_cache",
     "_monitor_info_cache", "_motherboard_info_cache", "_os_info_full_cache"}

\* The getter of category c is between its cache test and its cache write, in a
\* worker thread of the static load or in the loader thread's fallback.
InFlight(c) ==
    \/ wstate[c] = "query"
    \/ pc = "seq_query" /\ StaticOrder[si] = c

\* ------------------------------------------------------------ specification
WorkerNext == \E c \in StaticCats : WorkerBegin(c) \/ WorkerFinish(c)

LoaderNext ==
    \/ Submit
    \/ AwaitResult
    \/ AwaitTimeout
    \/ PoolExit
    \/ PoolExitFallback
    \/ SeqBegin
    \/ SeqFinish
    \/ LoopCheck
    \/ TickEnter
    \/ VolatileStep
    \/ GpuStep
    \/ TickReturn
    \/ Wake

GuiNext ==
    \/ HandleEvent
    \/ EnableTimerFires
    \/ ClearCache
    \/ StopRequest
    \/ StopReturn

Next == WorkerNext \/ LoaderNext \/ GuiNext

Spec == Init /\ [][Next]_vars

\* The operating system schedules the loader thread and the worker threads, every
\* external query ends within its timeout, msleep ends, and the Qt event loop
\* keeps delivering queued events while the GUI context is not blocked.
FairSpec ==
    /\ Spec
    /\ WF_vars(LoaderNext)
    /\ WF_vars(WorkerNext)
    /\ WF_vars(HandleEvent)
    /\ WF_vars(EnableTimerFires)
    /\ WF_vars(StopReturn)

\* The cleaner on its own: its operations are called one at a time, in any order.
CleanerNext ==
    \/ CleanTempBegin
    \/ CleanFolder
    \/ CleanFinish
    \/ RunDiskCleanup
    \/ EmptyRecycleBinOnly
    \/ OptimizeBegin
    \/ OptimizePurge
    \/ OptimizeFinish

CleanerSpec == CleanerInit /\ [][CleanerNext]_vars

\* The getters on their own, each called with any answer of its adapters.
GetterInit == LoaderInit /\ CleanerAtRest /\ GettersAtRest /\ CopyAtRest


GetterNext ==
    \/ GetDiskInfo
    \/ GetMemoryInfo
    \/ GetCpuCurrentSpeed
    \/ UpdateCpuDisplay

GetterSpec == GetterInit /\ [][GetterNext]_vars

\* The copy button of a loaded widget on its own.
CopyInit == WidgetLoaded /\ CleanerAtRest /\ GettersAtRest /\ CopyAtRest

CopyNext ==
    \/ CopySystemInfo
    \/ RestoreTimerFires

CopySpec == CopyInit /\ [][CopyNext]_vars

TypeOK ==
    /\ running \in BOOLEAN
    /\ pc \in {"submit", "await", "exit_ok", "exit_exc", "seq", "seq_query", "loop",
               "call_tick", "tick", "sleep", "done"}
    /\ submitted \in 0..Len(StaticOrder)
    /\ tickCount \in 0..MaxTicks
    /\ failures \in 0..MaxFailures
    /\ gpuAge \in 0..GpuWindow
    /\ gui \in {"idle", "in_stop"}

\* ===================================================================== claims
StaticLoadReturned == pc \in {"loop", "call_tick", "tick", "sleep", "done"}
TickEnded == pc = "tick" /\ ti > Len(TickOrder)
TickCategories == {tickEvents[i][1] : i \in 1..Len(tickEvents)}

\* C1: after stop() has returned, no update_*_display slot runs for an event of the
\* loader: no step taken after the return delivers a queued event.
C1_NoHandlerAfterStop ==
    [][stopsReturned >= 1 => Len(queue') >= Len(queue)]_vars

\* C2: after stop() has returned, the loader thread emits no further event: no
\* step taken after the return appends to the queue or counts as an emission,
\* wherever the loader was when the stop was requested.
C2_NoEmitAfterStop ==
    [][stopsReturned >= 1 =>
         /\ Len(queue') <= Len(queue)
         /\ staticEmitted' = staticEmitted
         /\ tickEvents' = tickEvents]_vars

\* A stop requested in the middle of a tick has returned, the tick having emitted
\* all of its events before the return.
C2_Witness ==
    /\ stopsReturned >= 1
    /\ stopPc = "tick"
    /\ Len(tickEvents) = Len(TickOrder)
    /\ queue # <<>>

\* C3, as claimed: once a stop request has set running to false, the polling loop
\* starts no new tick.
C3_NoTickStartsAfterStop == stopTick >= 0 => tickCount = stopTick

\* C3, amended: after a stop request at most one tick starts, and it starts only
\* when the loop test had already passed at the time of the request; a thread
\* that stop() has waited for has left run().
C3_AtMostOneTickAfterStop ==
    /\ stopTick >= 0 =>
         /\ tickCount <= stopTick + 1
         /\ tickCount = stopTick + 1 => stopPc = "call_tick"
    /\ stopsReturned >= 1 => pc = "done"

\* A tick has started after the stop request and run() has returned.
C3_Witness ==
    /\ stopTick >= 0
    /\ tickCount = stopTick + 1
    /\ pc = "done"
    /\ stopsReturned >= 1

\* C4: without a clear_cache, no static adapter (CPU name, CPU details, monitor
\* inventory, motherboard, device name, OS keys) is queried more than once, across
\* the static load, its fallback and the ticks that follow.
C4_StaticQueriedAtMostOnce ==
    clears = 0 => \A a \in AdapterNames : calls[a] <= 1

\* Two ticks have run after a static load that queried CPU, motherboard and OS.
C4_Witness ==
    /\ clears = 0
    /\ tickCount >= 2
    /\ TickEnded
    /\ calls["cpu_name"] = 1 /\ calls["cpu_info"] = 1 /\ calls["motherboard"] = 1
    /\ calls["device_name"] = 1 /\ calls["os_keys"] = 1

\* C5, as claimed: every tick queries the adapter of every volatile category.
C5_EveryTickQueriesAll == TickEnded => tickQueried = VolatileCats

\* C5, amended: every tick queries the adapter of every volatile category except
\* the GPU and emits exactly one event for each of the seven categories; the GPU
\* adapter is left out only while a cached GPU record is younger than the window.
C5_EveryTickQueriesAllButFreshGpu ==
    TickEnded =>
      /\ VolatileCats \ {"gpu"} \subseteq tickQueried
      /\ Len(tickEvents) = Cardinality(VolatileCats)
      /\ TickCategories = VolatileCats
      /\ "gpu" \notin tickQueried => gpu_cache # "None" /\ gpuAge < GpuWindow

\* The second tick has ended without a GPU query.
C5_Witness == TickEnded /\ tickCount = 2 /\ "gpu" \notin tickQueried

\* C6: a call of get_gpu_info queries the GPU exactly when no record is cached or
\* the window has elapsed since the last query; a query stores what it returns
\* (record or failure sentinel) and restarts the window; a call that does not
\* query returns the cached record and leaves the cache alone.
C6_GpuQueryIffStale ==
    [][(pc = "tick" /\ ti = Len(TickOrder) /\ ti' = ti + 1) =>
         /\ ("gpu" \in tickQueried') <=> (gpu_cache = "None" \/ gpuAge >= GpuWindow)
         /\ "gpu" \in tickQueried' =>
              /\ gpu_cache' = tickEvents'[Len(tickEvents')][2]
              /\ gpu_cache' \in GpuOutcomes
              /\ gpuAge' = 0
         /\ "gpu" \notin tickQueried' =>
              /\ gpu_cache' = gpu_cache
              /\ gpuAge' = gpuAge
              /\ tickEvents'[Len(tickEvents')] = <<"gpu", gpu_cache>>]_vars

\* A tick has republished a cached failure sentinel without querying.
C6_Witness ==
    /\ TickEnded
    /\ "gpu" \notin tickQueried
    /\ gpu_cache \in {"nogpu", "error"}
    /\ tickEvents[Len(tickEvents)] = <<"gpu", gpu_cache>>

\* C7: while no stop has been requested, every tick is followed by a further tick,
\* also after a tick in which queries failed (for the ticks that are explored).
C7_PollerKeepsTicking ==
    \A n \in 1..(MaxTicks - 1) :
      (tickCount = n /\ running) ~> (tickCount > n \/ ~running)

\* A further tick has started after a tick whose GPU query failed.
C7_Witness ==
    /\ pc = "tick"
    /\ ti = 1
    /\ tickCount = 2
    /\ running
    /\ gpu_cache \in {"nogpu", "error"}

\* C8: when the tick is over, every category has produced its event in the order
\* of the tick, and a category whose query failed has produced its sentinel.
C8_FailureDoesNotSkipRest ==
    pc = "sleep" =>
      /\ Len(tickEvents) = Len(TickOrder)
      /\ \A i \in 1..Len(tickEvents) :
           /\ tickEvents[i][1] = TickOrder[i]
           /\ tickEvents[i][1] \in tickFailed => tickEvents[i][2] # "record"

\* A tick whose first query failed has emitted all seven events.
C8_Witness ==
    /\ pc = "sleep"
    /\ "uptime" \in tickFailed
    /\ Len(tickEvents) = Len(TickOrder)
    /\ tickEvents[1] = <<"uptime", "sentinel">>

\* C9: once the static load has returned, every static category has been
\* delivered (its record or its sentinel), on the parallel path and on the
\* sequential fallback.
C9_StaticFailureIsolated ==
    StaticLoadReturned => \A c \in StaticCats : staticEmitted[c] >= 1

\* C10: a static category whose query has finished is never kept waiting behind a
\* category whose query is still running.
C10_EmittedInCompletionOrder ==
    ~(/\ pc = "await"
      /\ wstate[AwaitedCategory(fi)] # "done"
      /\ \E j \in (fi + 1)..Len(StaticOrder) : wstate[StaticOrder[j]] = "done")

\* C11: one invocation of the static load delivers exactly one event for each of
\* the four static categories, no category twice and none omitted, also when the
\* parallel path fails and the sequential fallback runs.
C11_ExactlyOneEventPerCategory ==
    StaticLoadReturned => \A c \in StaticCats : staticEmitted[c] = 1

\* C12: clear_cache leaves no static getter with a memoized value: right after
\* the call, the next call of each of the four static getters would miss its
\* cache and query its adapter.
C12_ClearResetsEveryStaticCache ==
    [][clears' = clears + 1 => \A c \in StaticCats : ~(CacheHit(c))']_vars

\* C13: no getter raises to its caller: no static-load worker ends with an
\* exception of its getter, and no tick is cut short by one.
C13_GettersNeverRaise ==
    /\ \A c \in StaticCats : wres[c] # "exc"
    /\ pc = "sleep" => Len(tickEvents) = Len(TickOrder)

\* C14: two execution contexts never write the same cache field concurrently: the
\* queries in flight write disjoint fields, and clear_cache does not run while a
\* query that writes one of the fields it assigns is in flight.
C14_NoConcurrentCacheWriters ==
    [][/\ \A c, d \in StaticCats :
            (c # d /\ InFlight(c) /\ InFlight(d)) =>
              FieldsWrittenByGetter(c) \cap FieldsWrittenByGetter(d) = {}
       /\ clears' = clears + 1 =>
            \A c \in StaticCats :
              InFlight(c) => FieldsWrittenByGetter(c) \cap FieldsWrittenByClear = {}]_vars

\* C15: the wait that follows a tick is the period of 8 after a tick without a
\* failed query and the backoff of 5 after a tick in which a query failed.
C15_BackoffAfterFailedTick ==
    pc = "sleep" => waited = IF tickFailed = {} THEN TickPeriod ELSE BackoffPeriod

\* C16: a static cache entry holds nothing or the record of a successful query
\* (a failed query leaves it unpopulated), and a populated entry keeps its value
\* in every step that is not a clear_cache.
C16_OnlySuccessIsMemoized ==
    [][/\ \A c \in StaticCats : CachedResult(c) \in {"None", "record"}
       /\ \A c \in StaticCats :
            (CacheHit(c) /\ clears' = clears) => (CachedResult(c))' = CachedResult(c)]_vars

FailureKinds == {"sentinel", "nogpu", "error"}

\* C17, as claimed: every failure sentinel a tick emits comes from a query that
\* tick issued itself; no tick republishes a failure stored by an earlier tick.
C17_SentinelOnlyFromOwnQuery ==
    TickEnded =>
      \A i \in 1..Len(tickEvents) :
        tickEvents[i][2] \in FailureKinds => tickEvents[i][1] \in tickQueried

\* C17, amended: every category other than the GPU is queried again by every
\* tick, so its sentinel always comes from a failed query of that tick; a GPU
\* failure sentinel is republished without a query only from the cache and only
\* while the freshness window has not elapsed since the failed query.
C17_SentinelRepublishedOnlyInGpuWindow ==
    TickEnded =>
      \A i \in 1..Len(tickEvents) :
        LET c == tickEvents[i][1]
            kind == tickEvents[i][2]
        IN  kind \in FailureKinds =>
              \/ c \in tickQueried /\ c \in tickFailed
              \/ /\ c = "gpu"
                 /\ c \notin tickQueried
                 /\ kind = gpu_cache
                 /\ gpuAge < GpuWindow

\* The GPU query of the first tick failed, the poller has slept for the period,
\* and the second tick has republished the stored sentinel without a query.
C17_Witness ==
    /\ TickEnded
    /\ tickCount = 2
    /\ waited = TickPeriod
    /\ "gpu" \notin tickQueried
    /\ tickEvents[Len(tickEvents)] = <<"gpu", "nogpu">>
    /\ gpuAge < GpuWindow

StaticLoadPcs == {"submit", "await", "exit_ok", "exit_exc", "seq", "seq_query"}

\* C18: the static load runs once and is over before polling begins: once a tick
\* has started the loader is never in the static load again, no worker of the
\* load is alive, no static event is emitted, and in the order of emission no
\* static event follows a volatile one.
C18_StaticLoadOnceBeforePolling ==
    [][/\ tickCount >= 1 =>
            /\ pc' \notin StaticLoadPcs
            /\ staticEmitted' = staticEmitted
            /\ \A c \in StaticCats : wstate'[c] = "none"
       /\ \A i, j \in 1..Len(queue) :
            (i < j /\ queue[i][1] \in VolatileCats) => queue[j][1] \in VolatileCats]_vars

\* A tick is running after a static load that delivered all four categories, and
\* events of the load and of the tick are pending together.
C18_Witness ==
    /\ tickCount >= 1
    /\ pc = "tick"
    /\ \A c \in StaticCats : staticEmitted[c] = 1
    /\ queue # <<>>
    /\ queue[1][1] \in StaticCats
    /\ queue[Len(queue)][1] \in VolatileCats

\* C19: a stop() called after a first stop() has returned finds the thread
\* finished and leaves it so: both of its steps keep running false and the loader
\* out of run(), change no loader state, emit nothing, and its wait() is over at
\* once.
C19_SecondStopChangesNothing ==
    [][(stopsReturned >= 1 /\ (stopsCalled' # stopsCalled \/ stopsReturned' # stopsReturned)) =>
         /\ ~running /\ ~running'
         /\ pc = "done" /\ pc' = "done"
         /\ UNCHANGED <<poolVars, cacheVars, gpuVars, calls, staticEmitted, tickVars,
                        failures, queue, waited>>
         /\ gui' = "in_stop" => WaitOver(pc')]_vars

\* A second stop() has returned.
C19_Witness ==
    /\ stopsReturned = 2
    /\ gui = "idle"
    /\ ~running
    /\ pc = "done"

\* C20: in a process that is not elevated, no step of a cleaner operation removes
\* an item of a temp folder, empties the recycle bin, launches the disk cleanup
\* tool or purges a system memory list.
C20_DestructiveOnlyWhenAdmin ==
    [][~isAdmin =>
         /\ files' = files
         /\ bin' = bin
         /\ cleanmgrRuns' = cleanmgrRuns
         /\ standby' = standby
         /\ modified' = modified]_vars

\* C21: for a disk answer with total > 0 and 0 <= used <= total the emitted
\* c_usage_percent is used / total * 100 (50 for 250 GiB used of 500 GiB); for
\* total = 0 the emitted record is the sentinel record.
C21_DiskPercent ==
    (probe.getter = "disk" /\ probe.outcome = "ok") =>
      IF probe.total > 0
      THEN /\ out.c_usage_percent[1] * probe.total
                = 100 * probe.used * out.c_usage_percent[2]
           /\ (probe.total = 500 * MiBPerGiB /\ probe.used = 250 * MiBPerGiB) =>
                out.c_usage_percent = <<50, 1>>
      ELSE out = DiskSentinel

\* The disk of 500 GiB with 250 GiB used has been reported.
C21_Witness ==
    /\ probe.getter = "disk"
    /\ probe.outcome = "ok"
    /\ probe.total = 500 * MiBPerGiB
    /\ probe.used = 250 * MiBPerGiB
    /\ out.c_usage_percent = <<50, 1>>
    /\ out.c_total_gb = <<500, 1>>

\* The disk adapter has answered a total of 0 and the sentinel has been emitted.
C21_WitnessZeroTotal ==
    /\ probe.getter = "disk"
    /\ probe.outcome = "ok"
    /\ probe.total = 0
    /\ out = DiskSentinel

\* C22: the emitted memory record carries the adapter's total, percent, used and
\* available values (the byte counts as GiB), whatever the RAM details are, and
\* carries the four RAM detail fields beside them.
C22_MemoryPassThrough ==
    (probe.getter = "memory" /\ probe.outcome = "ok") =>
      /\ out.total_gb[1] * MiBPerGiB = probe.total * out.total_gb[2]
      /\ out.used_gb[1] * MiBPerGiB = probe.used * out.used_gb[2]
      /\ out.available_gb[1] * MiBPerGiB = probe.available * out.available_gb[2]
      /\ out.percent = probe.percent
      /\ DOMAIN out = {"total_gb", "percent", "used_gb", "available_gb",
                       "ram_name", "ram_speed", "ram_type", "ram_slots"}

\* The 16 GiB machine that is half used has been reported with its RAM details.
C22_Witness ==
    /\ probe.getter = "memory"
    /\ probe.outcome = "ok"
    /\ probe.ram = "ok"
    /\ out.total_gb = <<16, 1>>
    /\ out.percent = <<50, 1>>
    /\ out.used_gb = <<8, 1>>
    /\ out.available_gb = <<8, 1>>
    /\ out.ram_type = "DDR4"

FigureReported == statuses # <<>> /\ statuses[Len(statuses)] = "optimized"

\* C23, as claimed: the freed amount optimize_memory reports is a value within
\* the band of the privilege and RAM class, or the measured change when that
\* exceeds 1.2 times the estimate, and it is strictly positive.
C23_ReportedWithinBand ==
    FigureReported =>
      /\ figure.reported > 0
      /\ \/ /\ Band(isAdmin, figure.ram)[1] <= figure.reported
            /\ figure.reported <= Band(isAdmin, figure.ram)[2]
         \/ figure.reported = figure.freed

\* C23, amended: the reported amount is strictly positive and is either the
\* measured change, only when that exceeds 1.2 times the estimate, or the
\* estimate: a value of the 80-250 band when the process is not elevated, and
\* when it is elevated the value drawn from the band of the RAM class scaled by
\* 0.7 + 0.6 * percent / 100, which lies between 0.7 times the low end and 1.3
\* times the high end of the band.
C23_ReportedFabricated ==
    FigureReported =>
      LET lo == Band(isAdmin, figure.ram)[1]
          hi == Band(isAdmin, figure.ram)[2]
          r == figure.reported
      IN  /\ r > 0
          /\ \/ /\ r = figure.freed
                /\ IF isAdmin THEN 100 * r > 12 * 7 * lo - 120 ELSE 10 * r > 12 * lo
             \/ /\ IF isAdmin
                   THEN 10 * (r + 1) > 7 * lo /\ 10 * r <= 13 * hi
                   ELSE lo <= r /\ r <= hi
                /\ IF isAdmin THEN 100 * figure.freed <= 12 * 13 * hi
                   ELSE 10 * figure.freed <= 12 * hi
          /\ figure.freed <= 0 => r # figure.freed

\* A process that is not elevated has reported a freed amount of the 80-250 band
\* although the available memory went down.
C23_Witness ==
    /\ FigureReported
    /\ ~isAdmin
    /\ figure.freed < 0
    /\ figure.reported \in 80..250

CleanStarted == statuses # <<>> /\ statuses[1] = "cleaning"

\* C30: once the administrator check has passed, clean_temp_files is either
\* still in its folder loop, with one status published and the recycle bin not
\* yet touched, or it has finished: every folder has been visited, whatever
\* failed on the way, SHEmptyRecycleBinW has been called exactly once, the
\* 'Cleaned' status is the second and last status, and the count is the number
\* of items tried minus the number whose removal raised.
C30_CleanRunsToCompletion ==
    CleanStarted =>
      /\ isAdmin
      /\ cleaned_count = walk.tried - walk.raised
      /\ IF cpc = "clean"
         THEN statuses = <<"cleaning">> /\ walk.binCalls = 0
         ELSE /\ cpc = "idle"
              /\ todo = {}
              /\ walk.binCalls = 1
              /\ statuses = <<"cleaning", "cleaned">>

\* A clean has finished in which the removal of a file raised, a directory was
\* left behind by rmtree without raising, and other items were still removed.
C30_Witness ==
    /\ CleanStarted
    /\ cpc = "idle"
    /\ walk.raised > 0
    /\ cleaned_count > 1
    /\ \E f \in Folders : "dir" \in files[f]
    /\ \E f \in Folders : files[f] = {}

\* C29: once update_cpu_display has handled a record of get_cpu_current_speed
\* that carries a known speed, the frequency row shows a current speed.
C29_CurrentSpeedReachesTheRow ==
    (probe.getter = "cpu_speed" /\ handled /\ out.speed # UnknownSpeed)
        => freqRow.current # UnknownSpeed

\* C28: whenever the GUI thread is inside stop(), run() eventually returns and
\* the wait in stop() completes, every external query being over within its
\* timeout.
C28_StopAlwaysReturns ==
    (gui = "in_stop") ~> (pc = "done" /\ gui = "idle" /\ stopsReturned = stopsCalled)

\* stop() has returned after a request made while the static load was waiting
\* for its queries.
C28_Witness ==
    /\ stopPc = "await"
    /\ stopsReturned = 1
    /\ gui = "idle"
    /\ pc = "done"

StaticEventsHandled ==
    StaticLoadReturned /\ \A i \in 1..Len(queue) : queue[i][1] \notin StaticCats

\* C24: once the static load has returned and the widget has handled all of its
\* events, the copy button is enabled or a timer that enables it is running,
\* whichever categories failed or timed out.
C24_CopyButtonGetsEnabled ==
    StaticEventsHandled => (copyEnabled \/ enableTimers > 0)

\* C25: the copy button is enabled only after the widget has handled a static
\* event of each of the four categories.
C25_EnabledOnlyAfterAllFour ==
    copyEnabled => \A c \in StaticCats : delivered[c] # "None"

\* The button is enabled after a load in which one query failed.
C25_Witness ==
    /\ copyEnabled
    /\ failures = 1
    /\ static_info_loaded_count = 4

\* C26: once the static load has returned, with its workers joined and its
\* events handled, and the caches not cleared since, the record each static
\* display slot received last is the record the loader holds in the cache of
\* that category, and no record was received for a category without a cache
\* entry.
C26_DisplayMatchesCache ==
    (StaticEventsHandled /\ WorkersJoined /\ clears = 0)
        => \A c \in StaticCats : delivered[c] = CachedResult(c)

\* C27: whenever no restore timer is pending, the copy button shows its
\* original caption again, whatever clicks were made before.
C27_CaptionRestored ==
    restoreTimers = <<>> => label = CopyCaption

====
